---- MODULE Spec2Model ----
(***************************************************************************)
(* Payment service of main.py: a JSON file of payment records, the         *)
(* validation strategies, and the four POST handlers that register,        *)
(* update, pay and revert a payment.                                       *)
(***************************************************************************)
EXTENDS Integers, FiniteSets, Sequences, TLC

(* ------------------------------------------------------------------ *)
(* Bounds of the model                                                  *)
(* ------------------------------------------------------------------ *)

\* Number of distinct payment identifiers the clients use.
NumIds == 2

IdNames == <<"p1", "p2", "p3", "p4">>

Ids == {IdNames[i] : i \in 1..NumIds}

(* ------------------------------------------------------------------ *)
(* Constants of main.py                                                 *)
(* ------------------------------------------------------------------ *)

STATUS_REGISTRADO == "REGISTRADO"

STATUS_PAGADO == "PAGADO"

STATUS_FALLIDO == "FALLIDO"

TARJETA == "Tarjeta de Crédito"

PAYPAL == "PayPal"

\* amount >= 10000 is refused by CreditCardStrategy
CREDIT_CARD_LIMIT == 10000

\* amount >= 5000 is refused by PayPalStrategy
PAYPAL_LIMIT == 5000

\* HTTPException(status_code=404) of load_payment
HTTP_NOT_FOUND == 404

\* HTTPException(status_code=400) of the handlers
HTTP_BAD_REQUEST == 400

\* a handler that returns its dict answers 200
HTTP_OK == 200

(* ------------------------------------------------------------------ *)
(* Inputs the clients send                                              *)
(* ------------------------------------------------------------------ *)

\* amount: float query parameter; both limits, a value just below the lower
\* one, and a negative one (no handler checks the sign).
Amounts == {0 - 1, PAYPAL_LIMIT - 1, PAYPAL_LIMIT, CREDIT_CARD_LIMIT}

\* payment_method: str query parameter; the two known labels and a label
\* that differs from a known one only in case.
Methods == {TARJETA, PAYPAL, "paypal"}

Statuses == {STATUS_REGISTRADO, STATUS_PAGADO, STATUS_FALLIDO}

None == "None"

(* ------------------------------------------------------------------ *)
(* State                                                                *)
(* ------------------------------------------------------------------ *)

VARIABLES
    data_json,   \* content of data.json: payment_id -> record
    last,        \* the response to the last request handled
    call,        \* the last direct call of a strategy's validate (test_main.py)
    workers,     \* the request each server worker is handling, and where
    watch        \* per payment, what happened since its pay last failed

vars == <<data_json, last, call, workers, watch>>

(* ------------------------------------------------------------------ *)
(* File helpers                                                         *)
(* ------------------------------------------------------------------ *)

\* json.dump({}, f)
EmptyData == [k \in {} |-> None]

\* load_all_payments(): the whole dictionary of the file
load_all_payments(file) == file

\* save_all_payments(data): the file becomes data
save_all_payments(data) == data

\* load_payment raises 404 unless payment_id is a key of the file
load_payment_found(file, payment_id) ==
    payment_id \in DOMAIN load_all_payments(file)

\* load_payment's return value, when it does not raise
load_payment(file, payment_id) == load_all_payments(file)[payment_id]

\* slip: only the record is written, the rest of the file is lost
save_payment_data_alone(file, payment_id, data) ==
    save_all_payments([k \in {payment_id} |-> data])

\* save_payment_data: load all, all_data[payment_id] = data, save all
save_payment_data(file, payment_id, data) ==
    LET all_data == load_all_payments(file)
    IN  save_all_payments(
            [k \in DOMAIN all_data \cup {payment_id} |->
                IF k = payment_id THEN data ELSE all_data[k]])

\* slip: the status is written as a literal in another spelling
save_payment_literal(file, payment_id, amount, payment_method, status) ==
    save_payment_data(file, payment_id,
        [amount |-> amount, payment_method |-> payment_method,
         status |-> "REGISTERED"])

\* save_payment: builds the record and saves it
save_payment(file, payment_id, amount, payment_method, status) ==
    save_payment_data(file, payment_id,
        [amount |-> amount, payment_method |-> payment_method,
         status |-> status])

(* ------------------------------------------------------------------ *)
(* Validation strategies                                                *)
(* ------------------------------------------------------------------ *)

\* slip: the loop forgets the method and counts every REGISTRADO payment
RECURSIVE registered_cc_count_any_method(_, _)
registered_cc_count_any_method(all_payments, ks) ==
    IF ks = {} THEN 0
    ELSE LET k == CHOOSE x \in ks : TRUE
             payment == all_payments[k]
         IN  (IF payment.status = STATUS_REGISTRADO THEN 1 ELSE 0)
             + registered_cc_count_any_method(all_payments, ks \ {k})

\* slip: the loop forgets the status and counts every card payment
RECURSIVE registered_cc_count_any_status(_, _)
registered_cc_count_any_status(all_payments, ks) ==
    IF ks = {} THEN 0
    ELSE LET k == CHOOSE x \in ks : TRUE
             payment == all_payments[k]
         IN  (IF payment.payment_method = TARJETA THEN 1 ELSE 0)
             + registered_cc_count_any_status(all_payments, ks \ {k})

\* the loop of CreditCardStrategy.validate over all_payments.values():
\* registered_cc_count after visiting the records of the keys in ks
RECURSIVE registered_cc_count(_, _)
registered_cc_count(all_payments, ks) ==
    IF ks = {} THEN 0
    ELSE LET k == CHOOSE x \in ks : TRUE
             payment == all_payments[k]
         IN  (IF payment.payment_method = TARJETA
                 /\ payment.status = STATUS_REGISTRADO
              THEN 1 ELSE 0)
             + registered_cc_count(all_payments, ks \ {k})

\* slip: the count tolerates two registered card payments
CreditCardStrategy_validate_two(amount, all_payments) ==
    IF amount >= CREDIT_CARD_LIMIT THEN FALSE
    ELSE IF registered_cc_count(all_payments, DOMAIN all_payments) > 2
         THEN FALSE
         ELSE TRUE

\* slip: > instead of >=, the limit itself is accepted
CreditCardStrategy_validate_gt(amount, all_payments) ==
    IF amount > CREDIT_CARD_LIMIT THEN FALSE
    ELSE IF registered_cc_count(all_payments, DOMAIN all_payments) > 1
         THEN FALSE
         ELSE TRUE

CreditCardStrategy_validate(amount, all_payments) ==
    IF amount >= CREDIT_CARD_LIMIT THEN FALSE
    ELSE IF registered_cc_count(all_payments, DOMAIN all_payments) > 1
         THEN FALSE
         ELSE TRUE

\* slip: > instead of >=, the limit itself is accepted
PayPalStrategy_validate_gt(amount, all_payments) ==
    IF amount > PAYPAL_LIMIT THEN FALSE ELSE TRUE

PayPalStrategy_validate(amount, all_payments) ==
    IF amount >= PAYPAL_LIMIT THEN FALSE ELSE TRUE

DefaultStrategy_validate(amount, all_payments) == FALSE

\* slip: the PayPal label is matched without regard to case
get_payment_strategy_nocase(method) ==
    IF method = TARJETA THEN "CreditCardStrategy"
    ELSE IF method \in {PAYPAL, "paypal"} THEN "PayPalStrategy"
    ELSE "DefaultStrategy"

\* factory: the strategy class chosen for a method label
get_payment_strategy(method) ==
    IF method = TARJETA THEN "CreditCardStrategy"
    ELSE IF method = PAYPAL THEN "PayPalStrategy"
    ELSE "DefaultStrategy"

\* strategy.validate(amount, all_payments): dynamic dispatch
validate(strategy, amount, all_payments) ==
    CASE strategy = "CreditCardStrategy" ->
            CreditCardStrategy_validate(amount, all_payments)
      [] strategy = "PayPalStrategy" ->
            PayPalStrategy_validate(amount, all_payments)
      [] OTHER -> DefaultStrategy_validate(amount, all_payments)

(* ------------------------------------------------------------------ *)
(* Requests and responses                                               *)
(* ------------------------------------------------------------------ *)

\* what a handler answers: the route and payment_id it served, the HTTP
\* code, and the status the returned dict carries (None when the answer is
\* an HTTPException)
Response(op, payment_id, code, status) ==
    [op |-> op, id |-> payment_id, code |-> code, status |-> status]

(* ------------------------------------------------------------------ *)
(* Handlers                                                             *)
(* ------------------------------------------------------------------ *)

\* slip: the check refuses only PAGADO, so a FALLIDO payment is updated
update_allowed_not_paid(payment) == payment.status # STATUS_PAGADO

\* slip: the check refuses only FALLIDO, so a PAGADO payment is updated
update_allowed_not_failed(payment) == payment.status # STATUS_FALLIDO

\* update_payment goes on only for a payment in REGISTRADO
update_allowed(payment) == payment.status = STATUS_REGISTRADO

\* slip: the new method is never stored
update_fields_amount_only(payment, amount, payment_method) ==
    [payment EXCEPT !.amount = amount]

\* payment[AMOUNT] = amount; payment[PAYMENT_METHOD] = payment_method
update_fields(payment, amount, payment_method) ==
    [payment EXCEPT !.amount = amount, !.payment_method = payment_method]

\* slip: the check refuses only PAGADO, so a FALLIDO payment is paid again
pay_allowed_not_paid(payment) == payment.status # STATUS_PAGADO

\* pay_payment goes on only for a payment in REGISTRADO
pay_allowed(payment) == payment.status = STATUS_REGISTRADO

\* slip: the two branches of the if are swapped
pay_status_swapped(is_valid) ==
    IF is_valid THEN STATUS_FALLIDO ELSE STATUS_PAGADO

\* the status pay_payment sets from the result of the validation
pay_status(is_valid) == IF is_valid THEN STATUS_PAGADO ELSE STATUS_FALLIDO

\* slip: the status check is lost, every stored payment reverts
revert_allowed_always(payment) == TRUE

\* slip: the check refuses only REGISTRADO, so a PAGADO payment reverts too
revert_allowed_not_registered(payment) == payment.status # STATUS_REGISTRADO

\* revert_payment goes on only for a payment in FALLIDO
revert_allowed(payment) == payment.status = STATUS_FALLIDO

\* slip: the existence check is lost and the record is always written
register_payment_overwrite(payment_id, amount, payment_method) ==
    /\ data_json' = save_payment(data_json, payment_id, amount,
                                 payment_method, STATUS_REGISTRADO)
    /\ last' = Response("register", payment_id, HTTP_OK, STATUS_REGISTRADO)

\* POST /payments/{payment_id}
register_payment(payment_id, amount, payment_method) ==
    IF load_payment_found(data_json, payment_id)
    THEN /\ last' = Response("register", payment_id, HTTP_BAD_REQUEST, None)
         /\ UNCHANGED data_json
    ELSE /\ data_json' = save_payment(data_json, payment_id, amount,
                                      payment_method, STATUS_REGISTRADO)
         /\ last' = Response("register", payment_id, HTTP_OK,
                             STATUS_REGISTRADO)

\* POST /payments/{payment_id}/update
update_payment(payment_id, amount, payment_method) ==
    IF ~load_payment_found(data_json, payment_id)
    THEN /\ last' = Response("update", payment_id, HTTP_NOT_FOUND, None)
         /\ UNCHANGED data_json
    ELSE LET payment == load_payment(data_json, payment_id)
         IN  IF ~update_allowed(payment)
             THEN /\ last' = Response("update", payment_id,
                                      HTTP_BAD_REQUEST, None)
                  /\ UNCHANGED data_json
             ELSE LET updated ==
                          update_fields(payment, amount, payment_method)
                  IN  /\ data_json' =
                            save_payment_data(data_json, payment_id, updated)
                      /\ last' = Response("update", payment_id, HTTP_OK,
                                          updated.status)

\* POST /payments/{payment_id}/pay
pay_payment(payment_id) ==
    IF ~load_payment_found(data_json, payment_id)
    THEN /\ last' = Response("pay", payment_id, HTTP_NOT_FOUND, None)
         /\ UNCHANGED data_json
    ELSE LET payment == load_payment(data_json, payment_id)
         IN  IF ~pay_allowed(payment)
             THEN /\ last' = Response("pay", payment_id,
                                      HTTP_BAD_REQUEST, None)
                  /\ UNCHANGED data_json
             ELSE LET all_payments == load_all_payments(data_json)
                      strategy ==
                          get_payment_strategy(payment.payment_method)
                      is_valid ==
                          validate(strategy, payment.amount, all_payments)
                      paid == [payment EXCEPT
                                 !.status = pay_status(is_valid)]
                  IN  /\ data_json' =
                            save_payment_data(data_json, payment_id, paid)
                      /\ last' = Response("pay", payment_id, HTTP_OK,
                                          paid.status)

\* slip: the status is set and saved before it is checked
revert_payment_save_first(payment_id) ==
    IF ~load_payment_found(data_json, payment_id)
    THEN /\ last' = Response("revert", payment_id, HTTP_NOT_FOUND, None)
         /\ UNCHANGED data_json
    ELSE LET payment == load_payment(data_json, payment_id)
             reverted == [payment EXCEPT !.status = STATUS_REGISTRADO]
         IN  /\ data_json' =
                    save_payment_data(data_json, payment_id, reverted)
             /\ last' = IF ~revert_allowed(payment)
                        THEN Response("revert", payment_id,
                                      HTTP_BAD_REQUEST, None)
                        ELSE Response("revert", payment_id, HTTP_OK,
                                      reverted.status)

\* POST /payments/{payment_id}/revert
revert_payment(payment_id) ==
    IF ~load_payment_found(data_json, payment_id)
    THEN /\ last' = Response("revert", payment_id, HTTP_NOT_FOUND, None)
         /\ UNCHANGED data_json
    ELSE LET payment == load_payment(data_json, payment_id)
         IN  IF ~revert_allowed(payment)
             THEN /\ last' = Response("revert", payment_id,
                                      HTTP_BAD_REQUEST, None)
                  /\ UNCHANGED data_json
             ELSE LET reverted ==
                          [payment EXCEPT !.status = STATUS_REGISTRADO]
                  IN  /\ data_json' =
                            save_payment_data(data_json, payment_id, reverted)
                      /\ last' = Response("revert", payment_id, HTTP_OK,
                                          reverted.status)

(* ------------------------------------------------------------------ *)
(* Specification: the requests are handled one at a time                *)
(* ------------------------------------------------------------------ *)

\* no strategy has been called directly
NoCall == [strategy |-> None, amount |-> None, result |-> None]

\* the server processes that handle requests
Workers == {"w1", "w2"}

\* the response of a worker that has given none, or handles a request
NoResponse == [op |-> None, id |-> None, code |-> 0, status |-> None]

\* the locals of a handler that has not assigned them yet
NoPayment == [amount |-> 0, payment_method |-> None, status |-> None]

\* a worker between two requests; resp is the response it has just given
IdleWorker(resp) ==
    [pc |-> "idle", op |-> None, id |-> None, payment |-> NoPayment,
     all_data |-> EmptyData, resp |-> resp]

AllIdle == [w \in Workers |-> IdleWorker(NoResponse)]

\* no pay has failed yet
NoWatch == [id \in Ids |-> "none"]

\* startup_event -> initialize_data_file on a fresh deployment: there is no
\* data.json yet, so it is created holding {}
Init ==
    /\ data_json = EmptyData
    /\ last = Response("startup", None, HTTP_OK, None)
    /\ call = NoCall
    /\ workers = AllIdle
    /\ watch = NoWatch

Register == \E id \in Ids, a \in Amounts, m \in Methods :
                /\ register_payment(id, a, m)
                /\ UNCHANGED <<call, workers, watch>>

Update == \E id \in Ids, a \in Amounts, m \in Methods :
                /\ update_payment(id, a, m)
                /\ UNCHANGED <<call, workers, watch>>

Pay == \E id \in Ids :
                /\ pay_payment(id)
                /\ UNCHANGED <<call, workers, watch>>

Revert == \E id \in Ids :
                /\ revert_payment(id)
                /\ UNCHANGED <<call, workers, watch>>

Next == Register \/ Update \/ Pay \/ Revert

Spec == Init /\ [][Next]_vars

(* ------------------------------------------------------------------ *)
(* Specification: a strategy's validate called on a dictionary built    *)
(* by the caller, as test_main.py does                                  *)
(* ------------------------------------------------------------------ *)

Strategies == {"CreditCardStrategy", "PayPalStrategy", "DefaultStrategy"}

\* the amounts of the records of mock_all_payments
MockAmounts == {100, 200}

\* the amounts passed to validate: those of the tests (4999, 5001, 1000),
\* those of the handlers' clients, zero and the neighbours of the upper limit
ValidateAmounts == Amounts \cup {0, 1000, PAYPAL_LIMIT + 1,
                                 CREDIT_CARD_LIMIT - 1, CREDIT_CARD_LIMIT + 1}

MockRecords == [amount : MockAmounts, payment_method : Methods,
                status : Statuses]

\* every dictionary of at most NumIds records
MockPayments == UNION {[S -> MockRecords] : S \in SUBSET Ids}

InitStrategy ==
    /\ data_json \in MockPayments
    /\ last = Response("startup", None, HTTP_OK, None)
    /\ call = NoCall
    /\ workers = AllIdle
    /\ watch = NoWatch

\* strategy.validate(amount=..., all_payments=mock_all_payments)
StrategyValidate ==
    \E strategy \in Strategies, amount \in ValidateAmounts :
        /\ call' = [strategy |-> strategy, amount |-> amount,
                    result |-> validate(strategy, amount, data_json)]
        /\ UNCHANGED <<data_json, last, workers, watch>>

NextStrategy == StrategyValidate

SpecStrategy == InitStrategy /\ [][NextStrategy]_vars

(* ------------------------------------------------------------------ *)
(* Specification: the requests handled one at a time, with a record of  *)
(* what happened to each payment since its pay last failed              *)
(* ------------------------------------------------------------------ *)

\* an amount both known rules accept and one both refuse
TraceAmounts == {PAYPAL_LIMIT - 1, CREDIT_CARD_LIMIT}

\* the two labels that have a rule
TraceMethods == {TARJETA, PAYPAL}

\* watch[id] after the step, for a payment that is not PAGADO:
\*   "none"          no pay of it has failed
\*   "same"          its pay failed; since then it was not updated and no
\*                   other card payment was updated or changed status
\*   "card_updated"  since then another card payment was updated
\*   "named"         since then it was updated itself, or another card
\*                   payment changed status
\* The entry of a payment in PAGADO stays as its last pay met it.
NextWatch(id) ==
    LET answered(op) == last'.op = op /\ last'.code = HTTP_OK
        others == DOMAIN data_json \ {id}
    IN  IF id \notin DOMAIN data_json THEN "none"
        ELSE IF data_json[id].status = STATUS_PAGADO THEN watch[id]
        ELSE IF answered("pay") /\ last'.id = id
             THEN IF last'.status = STATUS_FALLIDO THEN "same"
                  ELSE watch[id]
        ELSE IF watch[id] = "none" THEN "none"
        ELSE IF answered("update") /\ last'.id = id THEN "named"
        ELSE IF \E k \in others :
                    /\ data_json[k].payment_method = TARJETA
                    /\ data_json'[k].status # data_json[k].status
             THEN "named"
        ELSE IF watch[id] = "named" THEN "named"
        ELSE IF /\ answered("update") /\ last'.id \in others
                /\ data_json[last'.id].payment_method = TARJETA
             THEN "card_updated"
        ELSE watch[id]

Watched ==
    /\ watch' = [id \in Ids |-> NextWatch(id)]
    /\ UNCHANGED <<call, workers>>

TraceRegister == \E id \in Ids, a \in TraceAmounts, m \in TraceMethods :
                    register_payment(id, a, m) /\ Watched

TraceUpdate == \E id \in Ids, a \in TraceAmounts, m \in TraceMethods :
                    update_payment(id, a, m) /\ Watched

TracePay == \E id \in Ids : pay_payment(id) /\ Watched

TraceRevert == \E id \in Ids : revert_payment(id) /\ Watched

NextTrace == TraceRegister \/ TraceUpdate \/ TracePay \/ TraceRevert

SpecTrace == Init /\ [][NextTrace]_vars

(* ------------------------------------------------------------------ *)
(* Specification: two workers handle requests at the same time; every   *)
(* read of data.json and every write of it is one step                  *)
(* ------------------------------------------------------------------ *)

\* credit-card records under the limit: a Pay ends PAGADO or FALLIDO by
\* the number of REGISTRADO card records in the file it reads
ConcAmounts == {CREDIT_CARD_LIMIT - 1}

ConcMethods == {TARJETA}

\* the worker answers: it is idle again and keeps its own response
Answer(w, resp) ==
    /\ workers' = [workers EXCEPT ![w] = IdleWorker(resp)]
    /\ UNCHANGED last

\* the worker goes on to pc with the record it is going to save
GoOn(w, op, payment_id, pc, payment) ==
    /\ workers' = [workers EXCEPT ![w] =
                      [pc |-> pc, op |-> op, id |-> payment_id,
                       payment |-> payment, all_data |-> EmptyData,
                       resp |-> NoResponse]]
    /\ UNCHANGED last

\* first step of every handler: load_payment reads the file; the checks
\* and the changes of the loaded record that follow touch no file
ConcLoadPayment(w, op, payment_id, amount, payment_method) ==
    /\ workers[w].pc = "idle"
    /\ UNCHANGED data_json
    /\ LET found == load_payment_found(data_json, payment_id)
           payment == load_payment(data_json, payment_id)
           raise(code) == Answer(w, Response(op, payment_id, code, None))
       IN  CASE op = "register" ->
                  IF found THEN raise(HTTP_BAD_REQUEST)
                  ELSE GoOn(w, op, payment_id, "save_load",
                            [amount |-> amount,
                             payment_method |-> payment_method,
                             status |-> STATUS_REGISTRADO])
             [] op = "update" ->
                  IF ~found THEN raise(HTTP_NOT_FOUND)
                  ELSE IF ~update_allowed(payment)
                  THEN raise(HTTP_BAD_REQUEST)
                  ELSE GoOn(w, op, payment_id, "save_load",
                            update_fields(payment, amount, payment_method))
             [] op = "pay" ->
                  IF ~found THEN raise(HTTP_NOT_FOUND)
                  ELSE IF ~pay_allowed(payment)
                  THEN raise(HTTP_BAD_REQUEST)
                  ELSE GoOn(w, op, payment_id, "load_all", payment)
             [] op = "revert" ->
                  IF ~found THEN raise(HTTP_NOT_FOUND)
                  ELSE IF ~revert_allowed(payment)
                  THEN raise(HTTP_BAD_REQUEST)
                  ELSE GoOn(w, op, payment_id, "save_load",
                            [payment EXCEPT !.status = STATUS_REGISTRADO])

\* pay_payment: all_payments = load_all_payments(), then the validation
\* and the new status of the loaded record
ConcLoadAll(w) ==
    /\ workers[w].pc = "load_all"
    /\ UNCHANGED data_json
    /\ LET payment == workers[w].payment
           all_payments == load_all_payments(data_json)
           is_valid ==
               validate(get_payment_strategy(payment.payment_method),
                        payment.amount, all_payments)
       IN  GoOn(w, workers[w].op, workers[w].id, "save_load",
                [payment EXCEPT !.status = pay_status(is_valid)])

\* save_payment_data: all_data = load_all_payments()
ConcSaveLoad(w) ==
    /\ workers[w].pc = "save_load"
    /\ workers' = [workers EXCEPT
                      ![w].pc = "save_write",
                      ![w].all_data = load_all_payments(data_json)]
    /\ UNCHANGED <<data_json, last>>

\* save_payment_data: all_data[payment_id] = data; save_all_payments, and
\* the handler returns its dict
ConcSaveWrite(w) ==
    /\ workers[w].pc = "save_write"
    /\ data_json' = save_payment_data(workers[w].all_data, workers[w].id,
                                      workers[w].payment)
    /\ Answer(w, Response(workers[w].op, workers[w].id, HTTP_OK,
                          workers[w].payment.status))

ConcRequest ==
    \E w \in Workers, op \in {"register", "update", "pay", "revert"},
       id \in Ids, a \in ConcAmounts, m \in ConcMethods :
        ConcLoadPayment(w, op, id, a, m) /\ UNCHANGED <<call, watch>>

ConcValidate ==
    \E w \in Workers : ConcLoadAll(w) /\ UNCHANGED <<call, watch>>

ConcRead ==
    \E w \in Workers : ConcSaveLoad(w) /\ UNCHANGED <<call, watch>>

ConcWrite ==
    \E w \in Workers : ConcSaveWrite(w) /\ UNCHANGED <<call, watch>>

NextConc == ConcRequest \/ ConcValidate \/ ConcRead \/ ConcWrite

SpecConc == Init /\ [][NextConc]_vars

(* ------------------------------------------------------------------ *)
(* Properties                                                           *)
(* ------------------------------------------------------------------ *)

\* the rule of a stored payment, evaluated on the whole file
RuleValid(file, payment_id) ==
    validate(get_payment_strategy(file[payment_id].payment_method),
             file[payment_id].amount, file)

\* the step changes the status of payment_id along an edge of the lifecycle,
\* taken by the handler that owns the edge, or leaves it as it is
StatusEdge(payment_id) ==
    LET s == data_json[payment_id].status
        t == data_json'[payment_id].status
        served(op) == last'.op = op /\ last'.id = payment_id
    IN  \/ s = t
        \/ /\ s = STATUS_REGISTRADO /\ t = STATUS_PAGADO
           /\ served("pay") /\ RuleValid(data_json, payment_id)
        \/ /\ s = STATUS_REGISTRADO /\ t = STATUS_FALLIDO
           /\ served("pay") /\ ~RuleValid(data_json, payment_id)
        \/ /\ s = STATUS_FALLIDO /\ t = STATUS_REGISTRADO
           /\ served("revert")

\* C1: handled one at a time, the requests change a record's status only
\* from REGISTRADO to PAGADO (pay, rule valid), from REGISTRADO to FALLIDO
\* (pay, rule invalid) and from FALLIDO to REGISTRADO (revert); nothing
\* leaves PAGADO, and an update changes no status.
C1_StatusEdges ==
    [][\/ data_json' = data_json
       \/ \A id \in DOMAIN data_json :
            /\ id \in DOMAIN data_json'
            /\ StatusEdge(id)
            /\ data_json[id].status = STATUS_PAGADO
                  => data_json'[id].status = STATUS_PAGADO
            /\ last'.op = "update"
                  => data_json'[id].status = data_json[id].status]_vars

\* C1 witness: a payment has been reverted (REGISTRADO -> FALLIDO ->
\* REGISTRADO) while another one is PAGADO.
C1_Witness ==
    /\ last.op = "revert" /\ last.code = HTTP_OK
    /\ data_json[last.id].status = STATUS_REGISTRADO
    /\ \E id \in DOMAIN data_json : data_json[id].status = STATUS_PAGADO

\* C2: every stored record has one of the three statuses, and the record a
\* successful register has just created is REGISTRADO.
C2_StatusEnum ==
    /\ \A id \in DOMAIN data_json : data_json[id].status \in Statuses
    /\ (last.op = "register" /\ last.code = HTTP_OK)
          => /\ last.id \in DOMAIN data_json
             /\ data_json[last.id].status = STATUS_REGISTRADO

\* C2 witness: a register has just succeeded beside a record that is no
\* longer REGISTRADO.
C2_Witness ==
    /\ last.op = "register" /\ last.code = HTTP_OK
    /\ \E id \in DOMAIN data_json : data_json[id].status = STATUS_FALLIDO

\* the step is the handling of op for payment_id
Served(op, payment_id) == last'.op = op /\ last'.id = payment_id

\* the step is the handling of op for a payment the file holds in status
ServedIn(op, status) ==
    /\ last'.op = op
    /\ last'.id \in DOMAIN data_json
    /\ data_json[last'.id].status = status

\* the keys of the card payments of a dictionary that are REGISTRADO
RegisteredCards(file) ==
    {k \in DOMAIN file : /\ file[k].payment_method = "Tarjeta de Crédito"
                         /\ file[k].status = "REGISTRADO"}

\* C3: pay on a stored payment in REGISTRADO never fails: it answers 200,
\* stores PAGADO when the rule of the payment's method holds of its amount
\* and the whole file (the payment included) and FALLIDO otherwise, changes
\* nothing else, and returns the status it stored.
C3_PayOutcome ==
    [][ServedIn("pay", "REGISTRADO") =>
          LET id == last'.id
          IN  /\ last'.code = 200
              /\ data_json' =
                    [data_json EXCEPT ![id].status =
                        IF RuleValid(data_json, id) THEN "PAGADO"
                        ELSE "FALLIDO"]
              /\ last'.status = data_json'[id].status]_vars

\* C3 witness: a pay has just ended in FALLIDO and an earlier one in PAGADO.
C3_Witness ==
    /\ last.op = "pay" /\ last.code = 200 /\ last.status = "FALLIDO"
    /\ data_json[last.id].status = "FALLIDO"
    /\ \E id \in DOMAIN data_json : data_json[id].status = "PAGADO"

\* C4: CreditCardStrategy.validate, for every amount and every dictionary:
\* True when amount < 10000 and at most one card payment is REGISTRADO;
\* False when two or more card payments are REGISTRADO, whatever the amount;
\* False when amount >= 10000.
C4_CreditCardRule ==
    call.strategy = "CreditCardStrategy" =>
        LET n == Cardinality(RegisteredCards(data_json))
        IN  /\ (call.amount < 10000 /\ n <= 1) => call.result = TRUE
            /\ n >= 2 => call.result = FALSE
            /\ call.amount >= 10000 => call.result = FALSE

\* C4 witness: the case of the test: an amount below the limit refused
\* because two card payments are REGISTRADO.
C4_Witness ==
    /\ call.strategy = "CreditCardStrategy"
    /\ call.amount = 1000
    /\ Cardinality(RegisteredCards(data_json)) = 2
    /\ call.result = FALSE

\* C5: pay on a card payment in REGISTRADO with amount < 10000 ends in
\* PAGADO exactly when no other stored card payment is REGISTRADO; so, of
\* two card payments (both below the limit, and the only ones REGISTRADO),
\* the one paid first ends FALLIDO and the other, paid next, ends PAGADO.
C5_CardPayOnlyAlone ==
    [][ServedIn("pay", "REGISTRADO") =>
          LET id == last'.id
              others == RegisteredCards(data_json) \ {id}
          IN  ( /\ data_json[id].payment_method = "Tarjeta de Crédito"
                /\ data_json[id].amount < 10000 )
              => /\ data_json'[id].status = "PAGADO" <=> others = {}
                 /\ data_json'[id].status = "FALLIDO" <=> others # {}
                 \* the payment paid just before failed only because of
                 \* this one, the only card payment still REGISTRADO
                 /\ ( /\ last.op = "pay" /\ last.status = "FALLIDO"
                      /\ last.id # id
                      /\ data_json[last.id].payment_method
                            = "Tarjeta de Crédito"
                      /\ data_json[last.id].amount < 10000
                      /\ others = {} )
                    => data_json'[id].status = "PAGADO"]_vars

\* C5 witness: the second of two card payments has just been paid, after
\* the first one failed.
C5_Witness ==
    /\ last.op = "pay" /\ last.status = "PAGADO"
    /\ data_json[last.id].payment_method = "Tarjeta de Crédito"
    /\ \E first \in DOMAIN data_json \ {last.id} :
          /\ data_json[first].payment_method = "Tarjeta de Crédito"
          /\ data_json[first].amount < 10000
          /\ data_json[first].status = "FALLIDO"

\* C6 as the claim states it: pay on a card payment in REGISTRADO ends in
\* PAGADO exactly when its amount is below 10000 and at most one OTHER card
\* payment is REGISTRADO.
C6_OneOtherTolerated ==
    [][ServedIn("pay", "REGISTRADO") =>
          LET id == last'.id
          IN  data_json[id].payment_method = "Tarjeta de Crédito"
              => ( data_json'[id].status = "PAGADO"
                     <=> /\ data_json[id].amount < 10000
                         /\ Cardinality(RegisteredCards(data_json) \ {id})
                               <= 1 )]_vars

\* C6 amended: pay on a card payment in REGISTRADO ends in PAGADO exactly
\* when its amount is below 10000 and at most one card payment, the one
\* being paid included, is REGISTRADO; with exactly one other card payment
\* in REGISTRADO it ends in FALLIDO.
C6_OwnRecordCounted ==
    [][ServedIn("pay", "REGISTRADO") =>
          LET id == last'.id
          IN  data_json[id].payment_method = "Tarjeta de Crédito"
              => /\ data_json'[id].status = "PAGADO"
                     <=> /\ data_json[id].amount < 10000
                         /\ Cardinality(RegisteredCards(data_json)) <= 1
                 /\ Cardinality(RegisteredCards(data_json) \ {id}) = 1
                     => data_json'[id].status = "FALLIDO"]_vars

\* C6 witness: a card payment below the limit has just ended in FALLIDO
\* while exactly one other card payment is REGISTRADO.
C6_Witness ==
    /\ last.op = "pay" /\ last.status = "FALLIDO"
    /\ data_json[last.id].payment_method = "Tarjeta de Crédito"
    /\ data_json[last.id].amount < 10000
    /\ Cardinality(RegisteredCards(data_json)) = 1

\* the labels that are neither of the two known ones
UnknownMethods == Methods \ {"Tarjeta de Crédito", "PayPal"}

\* C7: on every file a pay request meets, PayPalStrategy.validate is True
\* exactly when amount < 5000 (5000 itself is refused), and pay on a PayPal
\* payment in REGISTRADO ends in PAGADO exactly when its amount is below
\* 5000, whatever the other records are.
C7_PayPalRule ==
    [][last'.op = "pay" =>
          /\ \A a \in ValidateAmounts :
                validate(get_payment_strategy("PayPal"), a, data_json)
                  = (a < 5000)
          /\ ( /\ ServedIn("pay", "REGISTRADO")
               /\ data_json[last'.id].payment_method = "PayPal" )
             => /\ data_json'[last'.id].status = "PAGADO"
                     <=> data_json[last'.id].amount < 5000
                /\ data_json'[last'.id].status = "FALLIDO"
                     <=> data_json[last'.id].amount >= 5000]_vars

\* C7 witness: a PayPal payment of exactly 5000 has just ended in FALLIDO
\* beside a card payment that is REGISTRADO.
C7_Witness ==
    /\ last.op = "pay" /\ last.status = "FALLIDO"
    /\ data_json[last.id].payment_method = "PayPal"
    /\ data_json[last.id].amount = 5000
    /\ RegisteredCards(data_json) # {}

\* C8: a label other than the exact card label and the exact PayPal label
\* resolves to DefaultStrategy, which refuses every amount on every file a
\* pay request meets; pay on a payment in REGISTRADO with such a label
\* answers 200 and ends in FALLIDO.
C8_UnknownMethodFails ==
    [][last'.op = "pay" =>
          /\ \A m \in UnknownMethods :
                /\ get_payment_strategy(m) = "DefaultStrategy"
                /\ \A a \in ValidateAmounts :
                      ~validate(get_payment_strategy(m), a, data_json)
          /\ ( /\ ServedIn("pay", "REGISTRADO")
               /\ data_json[last'.id].payment_method \in UnknownMethods )
             => /\ last'.code = 200
                /\ last'.status = "FALLIDO"
                /\ data_json'[last'.id].status = "FALLIDO"]_vars

\* C8 witness: a payment labelled "paypal", with an amount both known rules
\* accept, has just ended in FALLIDO.
C8_Witness ==
    /\ last.op = "pay" /\ last.code = 200 /\ last.status = "FALLIDO"
    /\ data_json[last.id].payment_method = "paypal"
    /\ data_json[last.id].amount = 4999

\* C9: register on a stored identifier answers 400 and leaves the file as it
\* is, whatever the record's status; register on an absent identifier
\* answers 200 and adds the record (amount, method, REGISTRADO) for every
\* amount and method, leaving the other records as they are.
C9_Register ==
    [][last'.op = "register" =>
          LET id == last'.id
          IN  IF id \in DOMAIN data_json
              THEN last'.code = 400 /\ data_json' = data_json
              ELSE /\ last'.code = 200
                   /\ last'.status = "REGISTRADO"
                   /\ DOMAIN data_json' = DOMAIN data_json \cup {id}
                   /\ \A k \in DOMAIN data_json :
                          data_json'[k] = data_json[k]
                   /\ \A a \in Amounts, m \in Methods :
                          register_payment(id, a, m) =>
                              data_json'[id] = [amount |-> a,
                                               payment_method |-> m,
                                               status |-> "REGISTRADO"]
                   /\ \E a \in Amounts, m \in Methods :
                          register_payment(id, a, m)]_vars

\* C9 witness: a register has just been refused for an identifier whose
\* record is PAGADO, in a file that holds a record registered with a
\* negative amount and an unknown label.
C9_Witness ==
    /\ last.op = "register" /\ last.code = 400
    /\ data_json[last.id].status = "PAGADO"
    /\ \E k \in DOMAIN data_json :
          /\ data_json[k].amount < 0
          /\ data_json[k].payment_method = "paypal"

\* C10: revert answers 404 for an absent identifier and 400 for a record in
\* REGISTRADO or PAGADO, leaving the file as it is; for a record in FALLIDO
\* it answers 200 and sets that record's status to REGISTRADO, changing
\* nothing else; so a revert right after a successful revert of the same
\* identifier answers 400.
C10_Revert ==
    [][last'.op = "revert" =>
          LET id == last'.id
          IN  /\ IF id \notin DOMAIN data_json
                 THEN last'.code = 404 /\ data_json' = data_json
                 ELSE IF data_json[id].status \in {"REGISTRADO", "PAGADO"}
                 THEN last'.code = 400 /\ data_json' = data_json
                 ELSE /\ data_json[id].status = "FALLIDO"
                      /\ last'.code = 200
                      /\ last'.status = "REGISTRADO"
                      /\ data_json' =
                           [data_json EXCEPT ![id].status = "REGISTRADO"]
              /\ (last.op = "revert" /\ last.code = 200 /\ last.id = id)
                 => last'.code = 400 /\ data_json' = data_json]_vars

\* C10 witness: a second revert has just been refused for a record in
\* REGISTRADO, beside another record.
C10_Witness ==
    /\ last.op = "revert" /\ last.code = 400
    /\ data_json[last.id].status = "REGISTRADO"
    /\ Cardinality(DOMAIN data_json) >= 2

\* C11: update answers 404 for an absent identifier and 400 for a record
\* that is not REGISTRADO, leaving the file as it is; so an update right
\* after a pay of the same identifier that answered 200 (PAGADO or FALLIDO)
\* answers 400 and the record keeps its amount and method.
C11_UpdateRefused ==
    [][last'.op = "update" =>
          LET id == last'.id
          IN  /\ id \notin DOMAIN data_json
                    => last'.code = 404 /\ data_json' = data_json
              /\ ( /\ id \in DOMAIN data_json
                   /\ data_json[id].status # "REGISTRADO" )
                    => last'.code = 400 /\ data_json' = data_json
              /\ (last.op = "pay" /\ last.code = 200 /\ last.id = id)
                    => /\ last'.code = 400
                       /\ data_json'[id].amount = data_json[id].amount
                       /\ data_json'[id].payment_method
                            = data_json[id].payment_method]_vars

\* C11 witness: an update has just been refused for the payment whose pay
\* ended in FALLIDO, after an earlier pay ended in PAGADO.
C11_Witness ==
    /\ last.op = "update" /\ last.code = 400
    /\ data_json[last.id].status = "FALLIDO"
    /\ \E id \in DOMAIN data_json : data_json[id].status = "PAGADO"

\* C12: an update of a record in REGISTRADO answers 200, replaces the
\* record's amount and method by the given ones (the record stored is the
\* loaded one with the fields of some request assigned, and the request
\* whose fields were assigned can be read back from it), keeps its status
\* REGISTRADO, and leaves every other record and the set of keys as they
\* are.
C12_UpdateFrame ==
    [][ServedIn("update", "REGISTRADO") =>
          LET id == last'.id
          IN  /\ last'.code = 200
              /\ last'.status = "REGISTRADO"
              /\ DOMAIN data_json' = DOMAIN data_json
              /\ data_json'[id].status = "REGISTRADO"
              /\ \A other \in DOMAIN data_json \ {id} :
                    data_json'[other] = data_json[other]
              /\ \E a \in Amounts, m \in Methods :
                    data_json'[id] = update_fields(data_json[id], a, m)
              /\ \A a \in Amounts, m \in Methods :
                    data_json'[id] = update_fields(data_json[id], a, m)
                       => /\ data_json'[id].amount = a
                          /\ data_json'[id].payment_method = m]_vars

\* C12 witness: an update has just succeeded beside a record that is
\* PAGADO.
C12_Witness ==
    /\ last.op = "update" /\ last.code = 200
    /\ data_json[last.id].status = "REGISTRADO"
    /\ \E id \in DOMAIN data_json : data_json[id].status = "PAGADO"

\* C13: pay answers 404 for an absent identifier and 400 for a record in
\* PAGADO or FALLIDO, leaving the file as it is; a pay that answers 200
\* meets the record in REGISTRADO and leaves it in PAGADO or FALLIDO, so
\* only a revert lets the record be paid again.
C13_PayRefused ==
    [][last'.op = "pay" =>
          LET id == last'.id
          IN  /\ id \notin DOMAIN data_json
                    => last'.code = 404 /\ data_json' = data_json
              /\ ( /\ id \in DOMAIN data_json
                   /\ data_json[id].status \in {"PAGADO", "FALLIDO"} )
                    => last'.code = 400 /\ data_json' = data_json
              /\ last'.code = 200
                    => /\ id \in DOMAIN data_json
                       /\ data_json[id].status = "REGISTRADO"
                       /\ data_json'[id].status \in {"PAGADO", "FALLIDO"}
              /\ (last.op = "pay" /\ last.code = 200 /\ last.id = id)
                    => last'.code = 400]_vars

\* C13 witness: a second pay of a payment in FALLIDO has just been refused.
C13_Witness ==
    /\ last.op = "pay" /\ last.code = 400
    /\ data_json[last.id].status = "FALLIDO"

\* C14 as the claim states it: every stored record has an amount >= 0.
C14_AmountNonNegative ==
    \A id \in DOMAIN data_json : data_json[id].amount >= 0

\* C15: no step removes a key of the file; the keys grow only by a register
\* that answers 200, and then by the registered identifier alone; update,
\* pay and revert of an absent identifier answer 404 and create no record.
C15_KeysOnlyGrow ==
    [][/\ DOMAIN data_json \subseteq DOMAIN data_json'
       /\ DOMAIN data_json' # DOMAIN data_json
            => /\ last'.op = "register" /\ last'.code = 200
               /\ last'.id \notin DOMAIN data_json
               /\ DOMAIN data_json' = DOMAIN data_json \cup {last'.id}
       /\ ( /\ last'.op \in {"update", "pay", "revert"}
            /\ last'.id \notin DOMAIN data_json )
            => last'.code = 404 /\ DOMAIN data_json' = DOMAIN data_json]_vars

\* C15 witness: an update of an absent identifier has just been refused and
\* the file still holds exactly the record it held.
C15_Witness ==
    /\ last.op = "update" /\ last.code = 404
    /\ last.id \notin DOMAIN data_json
    /\ Cardinality(DOMAIN data_json) = 1

\* C17: a record in PAGADO keeps its amount, method and status in every
\* later step, whichever identifier the step serves, and every update, pay
\* and revert of it answers 400.
C17_PaidIsFinal ==
    [][/\ \/ data_json' = data_json
          \/ \A id \in DOMAIN data_json :
                data_json[id].status = "PAGADO"
                    => /\ id \in DOMAIN data_json'
                       /\ data_json'[id] = data_json[id]
       /\ ( /\ last'.op \in {"update", "pay", "revert"}
            /\ last'.id \in DOMAIN data_json
            /\ data_json[last'.id].status = "PAGADO" )
            => last'.code = 400 /\ data_json' = data_json]_vars

\* C17 witness: an update of a payment in PAGADO has just been refused.
C17_Witness ==
    /\ last.op = "update" /\ last.code = 400
    /\ data_json[last.id].status = "PAGADO"

\* C18: a request answered 404 or 400 leaves the file as it was; the
\* absence check comes first: update, pay and revert answer 404 exactly
\* when the identifier is absent, and register answers 400 exactly when it
\* is stored.
C18_ErrorsChangeNothing ==
    [][/\ last'.code \in {400, 404} => data_json' = data_json
       /\ last'.op \in {"update", "pay", "revert"}
            => (last'.code = 404 <=> last'.id \notin DOMAIN data_json)
       /\ last'.op = "register"
            => /\ last'.code # 404
               /\ last'.code = 400 <=> last'.id \in DOMAIN data_json]_vars

\* C18 witness: a revert of a payment in PAGADO has just been refused, in a
\* file of two records.
C18_Witness ==
    /\ last.op = "revert" /\ last.code = 400
    /\ data_json[last.id].status = "PAGADO"
    /\ Cardinality(DOMAIN data_json) = 2

\* C20 as the claim states it: a pay right after the revert of a payment
\* whose pay failed, with nothing relevant in between, ends in FALLIDO
\* again; and a pay of a payment whose pay failed before ends in PAGADO only
\* if since then the payment was updated or another card payment changed
\* status.
C20_OnlyNamedCauses ==
    [][ServedIn("pay", "REGISTRADO") =>
          LET id == last'.id
          IN  /\ ( /\ last.op = "revert" /\ last.code = 200
                   /\ last.id = id /\ watch[id] = "same" )
                    => data_json'[id].status = "FALLIDO"
              /\ (watch[id] # "none" /\ data_json'[id].status = "PAGADO")
                    => watch[id] = "named"]_vars

\* C20 amended: a pay right after the revert of a payment whose pay failed,
\* with nothing relevant in between, ends in FALLIDO again; and a pay of a
\* payment whose pay failed before ends in PAGADO only if since then the
\* payment was updated, or another card payment was updated or changed
\* status.
C20_PayRepeats ==
    [][ServedIn("pay", "REGISTRADO") =>
          LET id == last'.id
          IN  /\ ( /\ last.op = "revert" /\ last.code = 200
                   /\ last.id = id /\ watch[id] = "same" )
                    => data_json'[id].status = "FALLIDO"
              /\ (watch[id] # "none" /\ data_json'[id].status = "PAGADO")
                    => watch[id] \in {"named", "card_updated"}
              /\ watch[id] = "same" => data_json'[id].status = "FALLIDO"]_vars

\* C20 witness: a payment whose pay failed, and that was reverted, has just
\* been paid again and ended in FALLIDO again.
C20_Witness ==
    /\ last.op = "pay" /\ last.code = 200 /\ last.status = "FALLIDO"
    /\ watch[last.id] = "same"
    /\ \E k \in DOMAIN data_json \ {last.id} :
          /\ data_json[k].status = "PAGADO"
          /\ watch[k] = "card_updated"

\* worker w takes its write step: save_all_payments replaces the file
Writes(w) == workers[w].pc = "save_write" /\ workers'[w].pc = "idle"

\* C16: with every read and every write of the file one step and the steps
\* of two requests interleaved, the write of an update stores the record
\* the update built from its earlier read, status REGISTRADO, over whatever
\* the file holds for that identifier by then, and answers 200: the last
\* write wins, so a status a pay has persisted in between is lost.
C16_LastWriteWins ==
    [][\A w \in Workers :
          (Writes(w) /\ workers[w].op = "update")
             => /\ workers[w].payment.status = STATUS_REGISTRADO
                /\ data_json'[workers[w].id] = workers[w].payment
                /\ workers'[w].resp =
                      Response("update", workers[w].id, HTTP_OK,
                               STATUS_REGISTRADO)]_vars

\* C16 witness: the last request of one worker was a pay that answered
\* PAGADO, the last request of the other an update of the same payment
\* that answered 200, and the file holds the payment as REGISTRADO: the
\* update read it before the pay wrote and wrote it back afterwards.
C16_LostUpdate ==
    \E id \in DOMAIN data_json, w1 \in Workers, w2 \in Workers :
        /\ workers[w1].resp = Response("pay", id, HTTP_OK, STATUS_PAGADO)
        /\ workers[w2].resp =
              Response("update", id, HTTP_OK, STATUS_REGISTRADO)
        /\ data_json[id].status = STATUS_REGISTRADO

\* C19 as stated: with the steps of the requests interleaved, the write of
\* a request on one identifier leaves every record the file holds for
\* another identifier in place, with the same contents.
C19_OthersUntouched ==
    [][\A w \in Workers :
          Writes(w) =>
             \A id \in DOMAIN data_json \ {workers[w].id} :
                /\ id \in DOMAIN data_json'
                /\ data_json'[id] = data_json[id]]_vars

\* C19: only a write step changes the file, and the write of a request on
\* one identifier stores, for every other identifier, what the request's
\* own load_all_payments in save_payment_data read: a record persisted for
\* another identifier after that read is removed, or put back to the
\* contents read, and it is kept unchanged only when nothing was persisted
\* for it in between.
C19_OthersAsRead ==
    [][/\ (\A w \in Workers : ~Writes(w)) => data_json' = data_json
       /\ \A w \in Workers :
             Writes(w) =>
                LET all_data == workers[w].all_data
                    others == DOMAIN all_data \ {workers[w].id}
                IN  /\ DOMAIN data_json' = others \cup {workers[w].id}
                    /\ \A id \in others : data_json'[id] = all_data[id]
                    /\ (\A id \in others :
                           id \in DOMAIN data_json
                              /\ data_json[id] = all_data[id])
                          => \A id \in others :
                                data_json'[id] = data_json[id]]_vars

\* C19 witness: the last request of one worker registered a payment and
\* answered 200, the last request of the other worker answered 200 for
\* another identifier, and the file no longer holds the registered payment.
C19_RecordLost ==
    \E w1 \in Workers, w2 \in Workers :
        /\ workers[w1].pc = "idle" /\ workers[w2].pc = "idle"
        /\ workers[w1].resp.op = "register"
        /\ workers[w1].resp.code = HTTP_OK
        /\ workers[w2].resp.code = HTTP_OK
        /\ workers[w2].resp.id # workers[w1].resp.id
        /\ workers[w1].resp.id \notin DOMAIN data_json
        /\ workers[w2].resp.id \in DOMAIN data_json
====
